---- MODULE Spec2Model ----
(***************************************************************************)
(* Model of go-kube-rest-client-example: the configuration loader          *)
(* (config.go, GetK8sConfigs), the credential decoder and the two client   *)
(* factories (k8s.go: decodeBase64, CreateExternalClusterKubeRestClient,   *)
(* CreateInClusterKubeRestClient) and the demonstration entry point        *)
(* (main.go).                                                              *)
(*                                                                         *)
(* Go strings and byte slices are sequences of byte values 0..255, so a    *)
(* base64 text and the bytes it encodes are values of the same kind and    *)
(* can be compared.  A nil slice and an empty slice are both <<>>.         *)
(* A Go error is the chain of its wrapped layers, outermost first; the nil *)
(* error is the empty chain.  A *kubernetes.Clientset is a sequence of     *)
(* length at most one: <<>> is the nil pointer.                            *)
(***************************************************************************)
EXTENDS Integers, Sequences, FiniteSets, TLC

(***************************************************************************)
(* encoding/base64, StdEncoding, as called by decodeBase64.                *)
(***************************************************************************)

\* The bytes '\n' and '\r', which the decoder skips.
IsNewline(c) == c \in {10, 13}

\* StdEncoding's padding character '='.
IsPad(c) == c = 61

\* StdEncoding.decodeMap: the 6-bit value of an alphabet byte, 255 otherwise.
decodeMap(c) ==
    IF c >= 65 /\ c <= 90 THEN c - 65
    ELSE IF c >= 97 /\ c <= 122 THEN c - 71
    ELSE IF c >= 48 /\ c <= 57 THEN c + 4
    ELSE IF c = 43 THEN 62
    ELSE IF c = 47 THEN 63
    ELSE 255

\* StdEncoding.encode: the alphabet byte of a 6-bit value.
encodeStd(v) ==
    IF v <= 25 THEN v + 65
    ELSE IF v <= 51 THEN v + 71
    ELSE IF v <= 61 THEN v - 4
    ELSE IF v = 62 THEN 43
    ELSE 47

\* "skip over newlines": the first position at or after si that holds no
\* '\n' or '\r' (Len(src) + 1 at the end of the input).
RECURSIVE SkipNewlines(_, _)
SkipNewlines(src, si) ==
    IF si <= Len(src) /\ IsNewline(src[si]) THEN SkipNewlines(src, si + 1) ELSE si

\* The reading loop of decodeQuantum: collects up to four 6-bit values into
\* dbuf starting at position si (1-based).  Returns the next position, the
\* values read, dlen, the error flag, and whether the quantum writes bytes
\* (it does not when the function returns n = 0 early).
RECURSIVE readQuantum(_, _, _)
readQuantum(src, si, dbuf) ==
    LET j == Len(dbuf)
        Corrupt(at) == [si |-> at, dbuf |-> dbuf, dlen |-> 1, err |-> TRUE, writes |-> FALSE]
    IN  IF j = 4 THEN [si |-> si, dbuf |-> dbuf, dlen |-> 4, err |-> FALSE, writes |-> TRUE]
        ELSE IF si > Len(src) THEN
            IF j = 0
            THEN [si |-> si, dbuf |-> dbuf, dlen |-> 1, err |-> FALSE, writes |-> FALSE]
            ELSE Corrupt(si)          \* padChar # NoPadding: input ends inside a quantum
        ELSE IF decodeMap(src[si]) # 255 THEN
            readQuantum(src, si + 1, Append(dbuf, decodeMap(src[si])))
        ELSE IF IsNewline(src[si]) THEN readQuantum(src, si + 1, dbuf)
        ELSE IF ~IsPad(src[si]) THEN Corrupt(si + 1)
        ELSE IF j < 2 THEN Corrupt(si + 1)              \* incorrect padding
        ELSE IF j = 2 THEN
            LET s2 == SkipNewlines(src, si + 1) IN
            IF s2 > Len(src) THEN Corrupt(s2)           \* not enough padding
            ELSE IF ~IsPad(src[s2]) THEN Corrupt(s2)    \* incorrect padding
            ELSE LET s3 == SkipNewlines(src, s2 + 1) IN
                 [si |-> s3, dbuf |-> dbuf, dlen |-> 2,
                  err |-> s3 <= Len(src), writes |-> TRUE]   \* trailing garbage
        ELSE LET s3 == SkipNewlines(src, si + 1) IN
             [si |-> s3, dbuf |-> dbuf, dlen |-> 3,
              err |-> s3 <= Len(src), writes |-> TRUE]       \* trailing garbage

\* The i-th 6-bit value of a quantum, 0 where none was read.
Sextet(dbuf, i) == IF i <= Len(dbuf) THEN dbuf[i] ELSE 0

\* decodeQuantum: "Convert 4x 6bit source bytes into 3 bytes"; the encoding
\* is not strict, so the bits left over in a padded quantum are dropped.
decodeQuantum(src, si) ==
    LET Bytes(val) == <<val \div 65536, (val \div 256) % 256, val % 256>>
        Convert(r) ==
            [si |-> r.si,
             out |-> IF r.writes
                     THEN SubSeq(Bytes(Sextet(r.dbuf, 1) * 262144 + Sextet(r.dbuf, 2) * 4096
                                       + Sextet(r.dbuf, 3) * 64 + Sextet(r.dbuf, 4)),
                                 1, r.dlen - 1)
                     ELSE <<>>,
             err |-> r.err]
    IN  Convert(readQuantum(src, si, <<>>))

\* Encoding.Decode: quantum after quantum until the input ends or one fails;
\* the bytes written so far are reported together with the error.
RECURSIVE Decode(_, _, _)
Decode(src, si, dst) ==
    IF si > Len(src) THEN [data |-> dst, err |-> FALSE]
    ELSE LET Step(q) == IF q.err THEN [data |-> dst \o q.out, err |-> TRUE]
                        ELSE Decode(src, q.si, dst \o q.out)
         IN  Step(decodeQuantum(src, si))

\* base64.StdEncoding.DecodeString: returns dbuf[:n] and the error.
DecodeString(s) == Decode(s, 1, <<>>)

\* base64.StdEncoding.EncodeToString.
RECURSIVE EncodeToString(_)
EncodeToString(b) ==
    IF Len(b) = 0 THEN <<>>
    ELSE IF Len(b) = 1 THEN
        <<encodeStd(b[1] \div 4), encodeStd((b[1] % 4) * 16), 61, 61>>
    ELSE IF Len(b) = 2 THEN
        <<encodeStd(b[1] \div 4), encodeStd((b[1] % 4) * 16 + b[2] \div 16),
          encodeStd((b[2] % 16) * 4), 61>>
    ELSE <<encodeStd(b[1] \div 4), encodeStd((b[1] % 4) * 16 + b[2] \div 16),
           encodeStd((b[2] % 16) * 4 + b[3] \div 64), encodeStd(b[3] % 64)>>
         \o EncodeToString(SubSeq(b, 4, Len(b)))

(***************************************************************************)
(* Errors.  fmt.Errorf builds one layer; %w keeps the wrapped chain.       *)
(***************************************************************************)

nil == <<>>

\* fmt.Errorf(msg, cluster, cause): cluster is "" where the format has no %s,
\* cause is nil where it has no %w.
Errorf(msg, cluster, cause) == <<[msg |-> msg, cluster |-> cluster]>> \o cause

\* An error returned by a library (encoding/json, encoding/base64, client-go).
LibError(msg) == <<[msg |-> msg, cluster |-> ""]>>

(***************************************************************************)
(* k8s.go: decodeBase64.                                                   *)
(***************************************************************************)

\* A slip of decodeBase64: the bytes DecodeString wrote before the error are
\* handed back with it.
decodeBase64_KeepsPartial(encodedData) ==
    IF encodedData = <<>> THEN [data |-> <<>>, err |-> nil]
    ELSE LET Return(r) ==
                 IF r.err
                 THEN [data |-> r.data,
                       err |-> Errorf("failed to decode base64 data: %w", "",
                                      LibError("illegal base64 data"))]
                 ELSE [data |-> r.data, err |-> nil]
         IN  Return(DecodeString(encodedData))

\* A slip of decodeBase64: the error of DecodeString is dropped.
decodeBase64_SwallowsError(encodedData) ==
    IF encodedData = <<>> THEN [data |-> <<>>, err |-> nil]
    ELSE LET Return(r) == [data |-> r.data, err |-> nil]
         IN  Return(DecodeString(encodedData))

decodeBase64(encodedData) ==
    IF encodedData = <<>> THEN [data |-> <<>>, err |-> nil]
    ELSE LET Return(r) ==
                 IF r.err
                 THEN [data |-> <<>>,
                       err |-> Errorf("failed to decode base64 data: %w", "",
                                      LibError("illegal base64 data"))]
                 ELSE [data |-> r.data, err |-> nil]
         IN  Return(DecodeString(encodedData))

(***************************************************************************)
(* config.go: the configuration types and GetK8sConfigs.                   *)
(***************************************************************************)

\* The zero value TLSClientConfig{}.
ZeroTLSClientConfig ==
    [Insecure |-> FALSE, CertData |-> <<>>, KeyData |-> <<>>, CAData |-> <<>>]

\* The zero value KubeConfig{}.
ZeroKubeConfig == [TLSClientConfig |-> ZeroTLSClientConfig]

\* The zero value K8sConfig{}.
ZeroK8sConfig == [Name |-> "", Config |-> ZeroTLSClientConfig, Host |-> <<>>]

\* os.Getenv: the value of a variable, "" when it is not set.
Getenv(env, key) == IF key \in DOMAIN env THEN env[key] ELSE <<>>

\* json.Unmarshal of one member of a JSON object into a struct field of Go
\* type `want` ("string" or "bool"): an absent member and null leave the
\* field alone, a value of another JSON type is an UnmarshalTypeError.
UnmarshalField(obj, key, want, old) ==
    IF key \notin DOMAIN obj.m THEN [v |-> old, err |-> FALSE]
    ELSE IF obj.m[key].t = "null" THEN [v |-> old, err |-> FALSE]
    ELSE IF obj.m[key].t = want THEN [v |-> obj.m[key].v, err |-> FALSE]
    ELSE [v |-> old, err |-> TRUE]

\* json.Unmarshal into a TLSClientConfig (the json tags of config.go).
UnmarshalTLSClientConfig(j, old) ==
    IF j.t = "null" THEN [v |-> old, err |-> FALSE]
    ELSE IF j.t # "object" THEN [v |-> old, err |-> TRUE]
    ELSE LET insecure == UnmarshalField(j, "insecure", "bool", old.Insecure)
             certData == UnmarshalField(j, "certData", "string", old.CertData)
             keyData  == UnmarshalField(j, "keyData", "string", old.KeyData)
             caData   == UnmarshalField(j, "caData", "string", old.CAData)
         IN  [v |-> [Insecure |-> insecure.v, CertData |-> certData.v,
                     KeyData |-> keyData.v, CAData |-> caData.v],
              err |-> insecure.err \/ certData.err \/ keyData.err \/ caData.err]

\* json.Unmarshal([]byte(config), &kubeConfig).  A non-empty text is the
\* one-element sequence of what it denotes: a syntax error or a JSON value.
\* A JSON value that is neither null nor an object cannot fill the struct;
\* members the struct does not name are skipped.  (Member names are taken as
\* written; encoding/json would also match them without regard to case.)
Unmarshal(config, kubeConfig) ==
    LET j == config[1] IN
    IF j.t = "syntax error"
    THEN [v |-> kubeConfig, err |-> LibError("json: syntax error")]
    ELSE IF j.t = "null" THEN [v |-> kubeConfig, err |-> nil]
    ELSE IF j.t # "object"
    THEN [v |-> kubeConfig, err |-> LibError("json: cannot unmarshal into Go value")]
    ELSE IF "tlsClientConfig" \notin DOMAIN j.m THEN [v |-> kubeConfig, err |-> nil]
    ELSE LET tls == UnmarshalTLSClientConfig(j.m["tlsClientConfig"],
                                             kubeConfig.TLSClientConfig)
         IN  [v |-> [TLSClientConfig |-> tls.v],
              err |-> IF tls.err
                      THEN LibError("json: cannot unmarshal into Go value")
                      ELSE nil]

\* viper.AutomaticEnv() on the package-level viper instance.
AutomaticEnv(v) == [v EXCEPT !.automaticEnvApplied = TRUE]

\* A slip of GetK8sConfigs: K8S_HOST is tested before K8S_CONFIG is read.
GetK8sConfigs_HostFirst(env, v) ==
    LET config == Getenv(env, "K8S_CONFIG")
        parsed == Unmarshal(config, ZeroKubeConfig)
        Fail(e) == [ret |-> ZeroK8sConfig, err |-> e, viper |-> AutomaticEnv(v)]
    IN  IF Getenv(env, "K8S_HOST") = <<>>
        THEN Fail(Errorf("K8S_HOST environment variable is not set", "", nil))
        ELSE IF config = <<>>
        THEN Fail(Errorf("K8S_CONFIG environment variable is not set", "", nil))
        ELSE IF parsed.err # nil
        THEN Fail(Errorf("failed to unmarshal: %w", "", parsed.err))
        ELSE [ret |-> [Name |-> "default", Config |-> parsed.v.TLSClientConfig,
                       Host |-> Getenv(env, "K8S_HOST")],
              err |-> nil, viper |-> AutomaticEnv(v)]

\* A slip of GetK8sConfigs: the three fields are decoded while loading and the
\* returned configuration holds the decoded bytes.
GetK8sConfigs_DecodesEagerly(env, v) ==
    LET config == Getenv(env, "K8S_CONFIG")
        parsed == Unmarshal(config, ZeroKubeConfig)
        tls == parsed.v.TLSClientConfig
        Fail(e) == [ret |-> ZeroK8sConfig, err |-> e, viper |-> AutomaticEnv(v)]
    IN  IF config = <<>>
        THEN Fail(Errorf("K8S_CONFIG environment variable is not set", "", nil))
        ELSE IF parsed.err # nil
        THEN Fail(Errorf("failed to unmarshal: %w", "", parsed.err))
        ELSE IF Getenv(env, "K8S_HOST") = <<>>
        THEN Fail(Errorf("K8S_HOST environment variable is not set", "", nil))
        ELSE [ret |-> [Name |-> "default",
                       Config |-> [Insecure |-> tls.Insecure,
                                   CertData |-> decodeBase64(tls.CertData).data,
                                   KeyData |-> decodeBase64(tls.KeyData).data,
                                   CAData |-> decodeBase64(tls.CAData).data],
                       Host |-> Getenv(env, "K8S_HOST")],
              err |-> nil, viper |-> AutomaticEnv(v)]

\* A slip of GetK8sConfigs: a document without tlsClientConfig is refused.
GetK8sConfigs_RequiresTLS(env, v) ==
    LET config == Getenv(env, "K8S_CONFIG")
        parsed == Unmarshal(config, ZeroKubeConfig)
        Fail(e) == [ret |-> ZeroK8sConfig, err |-> e, viper |-> AutomaticEnv(v)]
    IN  IF config = <<>>
        THEN Fail(Errorf("K8S_CONFIG environment variable is not set", "", nil))
        ELSE IF parsed.err # nil \/ parsed.v = ZeroKubeConfig
        THEN Fail(Errorf("failed to unmarshal: %w", "", parsed.err))
        ELSE IF Getenv(env, "K8S_HOST") = <<>>
        THEN Fail(Errorf("K8S_HOST environment variable is not set", "", nil))
        ELSE [ret |-> [Name |-> "default", Config |-> parsed.v.TLSClientConfig,
                       Host |-> Getenv(env, "K8S_HOST")],
              err |-> nil, viper |-> AutomaticEnv(v)]

\* A slip of GetK8sConfigs: the call of viper.AutomaticEnv is left out.
GetK8sConfigs_NoAutomaticEnv(env, v) ==
    LET config == Getenv(env, "K8S_CONFIG")
        parsed == Unmarshal(config, ZeroKubeConfig)
        Fail(e) == [ret |-> ZeroK8sConfig, err |-> e, viper |-> v]
    IN  IF config = <<>>
        THEN Fail(Errorf("K8S_CONFIG environment variable is not set", "", nil))
        ELSE IF parsed.err # nil
        THEN Fail(Errorf("failed to unmarshal: %w", "", parsed.err))
        ELSE IF Getenv(env, "K8S_HOST") = <<>>
        THEN Fail(Errorf("K8S_HOST environment variable is not set", "", nil))
        ELSE [ret |-> [Name |-> "default", Config |-> parsed.v.TLSClientConfig,
                       Host |-> Getenv(env, "K8S_HOST")],
              err |-> nil, viper |-> v]

\* GetK8sConfigs: the returned configuration and error, and the package-level
\* viper instance after the call.
GetK8sConfigs(env, v) ==
    LET config == Getenv(env, "K8S_CONFIG")
        parsed == Unmarshal(config, ZeroKubeConfig)
        Fail(e) == [ret |-> ZeroK8sConfig, err |-> e, viper |-> AutomaticEnv(v)]
    IN  IF config = <<>>
        THEN Fail(Errorf("K8S_CONFIG environment variable is not set", "", nil))
        ELSE IF parsed.err # nil
        THEN Fail(Errorf("failed to unmarshal: %w", "", parsed.err))
        ELSE IF Getenv(env, "K8S_HOST") = <<>>
        THEN Fail(Errorf("K8S_HOST environment variable is not set", "", nil))
        ELSE [ret |-> [Name |-> "default", Config |-> parsed.v.TLSClientConfig,
                       Host |-> Getenv(env, "K8S_HOST")],
              err |-> nil, viper |-> AutomaticEnv(v)]

(***************************************************************************)
(* k8s.go: the client factories.  A factory's result carries, besides the  *)
(* returned clientset and error, what the call did: the functions it       *)
(* called in order (calls), the arguments it gave decodeBase64             *)
(* (decodeArgs), the rest.Config it built (restConfig, at most one) and    *)
(* the lines it printed (stdout).                                          *)
(***************************************************************************)

\* kubernetes.NewForConfig: whether client-go accepts the configuration's
\* TLS material is a property of the world the call runs in.
NewForConfig(restConfig, world) ==
    IF world.accepts
    THEN [clientset |-> <<restConfig>>, err |-> nil]
    ELSE [clientset |-> <<>>, err |-> LibError("client-go: unable to load TLS material")]

\* clientset.Discovery().ServerVersion(): one request to the API server.
ServerVersion(clientset, world) ==
    IF world.reachable THEN nil ELSE LibError("client-go: connection refused")

\* The result of a factory call that failed.
Failed(e, calls, args, rc) ==
    [clientset |-> <<>>, err |-> e, calls |-> calls, decodeArgs |-> args,
     restConfig |-> rc, stdout |-> <<>>]

\* What the first half leaves when it ends the call after n decodeBase64
\* calls, and when it has decoded all three fields.
Stopped(cfg, e, n) ==
    [err |-> e, calls |-> [i \in 1..n |-> "decodeBase64"],
     decodeArgs |-> SubSeq(<<cfg.CertData, cfg.KeyData, cfg.CAData>>, 1, n),
     certData |-> <<>>, keyData |-> <<>>, caData |-> <<>>]
Decoded(cfg, cert, key, ca) ==
    [err |-> nil, calls |-> <<"decodeBase64", "decodeBase64", "decodeBase64">>,
     decodeArgs |-> <<cfg.CertData, cfg.KeyData, cfg.CAData>>,
     certData |-> cert.data, keyData |-> key.data, caData |-> ca.data]

\* A slip of the first half: the else branches are missing, so an empty field
\* is handed to decodeBase64, which returns nil data and no error for it.
DecodeCredentials_NoElse(k8sconfig) ==
    LET name == k8sconfig.Name
        cfg  == k8sconfig.Config
        Run(cert, key, ca) ==
            IF cert.err # nil
            THEN Stopped(cfg, Errorf("failed to decode certificate data for cluster %s: %w",
                                     name, cert.err), 1)
            ELSE IF key.err # nil
            THEN Stopped(cfg, Errorf("failed to decode key data for cluster %s: %w",
                                     name, key.err), 2)
            ELSE IF ca.err # nil
            THEN Stopped(cfg, Errorf("failed to decode CA data for cluster %s: %w",
                                     name, ca.err), 3)
            ELSE Decoded(cfg, cert, key, ca)
    IN  Run(decodeBase64(cfg.CertData), decodeBase64(cfg.KeyData), decodeBase64(cfg.CAData))

\* The first half of CreateExternalClusterKubeRestClient: the three fields
\* are tested and decoded in turn, certificate, key, CA; the first empty or
\* undecodable one ends the call.  (cert, key and ca are what decodeBase64
\* returns for a field; each is read only after its field was found
\* non-empty and the fields before it were decoded.)
DecodeCredentials(k8sconfig) ==
    LET name == k8sconfig.Name
        cfg  == k8sconfig.Config
        Run(cert, key, ca) ==
            IF cfg.CertData = <<>>
            THEN Stopped(cfg, Errorf("no certificate data provided for cluster %s",
                                     name, nil), 0)
            ELSE IF cert.err # nil
            THEN Stopped(cfg, Errorf("failed to decode certificate data for cluster %s: %w",
                                     name, cert.err), 1)
            ELSE IF cfg.KeyData = <<>>
            THEN Stopped(cfg, Errorf("no key data provided for cluster %s", name, nil), 1)
            ELSE IF key.err # nil
            THEN Stopped(cfg, Errorf("failed to decode key data for cluster %s: %w",
                                     name, key.err), 2)
            ELSE IF cfg.CAData = <<>>
            THEN Stopped(cfg, Errorf("no ca certificate data provided for cluster %s",
                                     name, nil), 2)
            ELSE IF ca.err # nil
            THEN Stopped(cfg, Errorf("failed to decode CA data for cluster %s: %w",
                                     name, ca.err), 3)
            ELSE Decoded(cfg, cert, key, ca)
    IN  Run(decodeBase64(cfg.CertData), decodeBase64(cfg.KeyData), decodeBase64(cfg.CAData))

\* A slip of the second half: the liveness check is tried a second time when
\* the first attempt fails.
ConnectClientset_Retries(k8sconfig, creds, world) ==
    LET name == k8sconfig.Name
        restConfig == [Host |-> k8sconfig.Host,
                       TLSClientConfig |-> [Insecure |-> k8sconfig.Config.Insecure,
                                            CertData |-> creds.certData,
                                            KeyData |-> creds.keyData,
                                            CAData |-> creds.caData]]
        made == NewForConfig(restConfig, world)
        live == ServerVersion(made.clientset, world)
    IN  IF made.err # nil
        THEN Failed(Errorf("failed to create Kubernetes clientset for cluster %s: %w",
                           name, made.err),
                    creds.calls \o <<"NewForConfig">>, creds.decodeArgs, <<restConfig>>)
        ELSE IF live # nil
        THEN Failed(Errorf("failed to connect to Kubernetes cluster %s: %w", name, live),
                    creds.calls \o <<"NewForConfig", "ServerVersion", "ServerVersion">>,
                    creds.decodeArgs, <<restConfig>>)
        ELSE [clientset |-> made.clientset, err |-> nil,
              calls |-> creds.calls \o <<"NewForConfig", "ServerVersion", "Printf">>,
              decodeArgs |-> creds.decodeArgs, restConfig |-> <<restConfig>>,
              stdout |-> <<[text |-> "Successfully connected to Kubernetes cluster %s\n",
                            arg |-> name]>>]

\* A slip of the second half: the success line is printed and the clientset
\* returned as soon as the clientset exists; the error of the liveness check
\* is returned beside it.
ConnectClientset_ReturnsDead(k8sconfig, creds, world) ==
    LET name == k8sconfig.Name
        restConfig == [Host |-> k8sconfig.Host,
                       TLSClientConfig |-> [Insecure |-> k8sconfig.Config.Insecure,
                                            CertData |-> creds.certData,
                                            KeyData |-> creds.keyData,
                                            CAData |-> creds.caData]]
        made == NewForConfig(restConfig, world)
        live == ServerVersion(made.clientset, world)
    IN  IF made.err # nil
        THEN Failed(Errorf("failed to create Kubernetes clientset for cluster %s: %w",
                           name, made.err),
                    creds.calls \o <<"NewForConfig">>, creds.decodeArgs, <<restConfig>>)
        ELSE [clientset |-> made.clientset,
              err |-> IF live # nil
                      THEN Errorf("failed to connect to Kubernetes cluster %s: %w", name, live)
                      ELSE nil,
              calls |-> creds.calls \o <<"NewForConfig", "ServerVersion", "Printf">>,
              decodeArgs |-> creds.decodeArgs, restConfig |-> <<restConfig>>,
              stdout |-> <<[text |-> "Successfully connected to Kubernetes cluster %s\n",
                            arg |-> name]>>]

\* The second half of CreateExternalClusterKubeRestClient: the rest.Config is
\* assembled from the host, the insecure flag and the decoded bytes, the
\* clientset is made and the server version is asked for once.
ConnectClientset(k8sconfig, creds, world) ==
    LET name == k8sconfig.Name
        restConfig == [Host |-> k8sconfig.Host,
                       TLSClientConfig |-> [Insecure |-> k8sconfig.Config.Insecure,
                                            CertData |-> creds.certData,
                                            KeyData |-> creds.keyData,
                                            CAData |-> creds.caData]]
        made == NewForConfig(restConfig, world)
        live == ServerVersion(made.clientset, world)
    IN  IF made.err # nil
        THEN Failed(Errorf("failed to create Kubernetes clientset for cluster %s: %w",
                           name, made.err),
                    creds.calls \o <<"NewForConfig">>, creds.decodeArgs, <<restConfig>>)
        ELSE IF live # nil
        THEN Failed(Errorf("failed to connect to Kubernetes cluster %s: %w", name, live),
                    creds.calls \o <<"NewForConfig", "ServerVersion">>,
                    creds.decodeArgs, <<restConfig>>)
        ELSE [clientset |-> made.clientset, err |-> nil,
              calls |-> creds.calls \o <<"NewForConfig", "ServerVersion", "Printf">>,
              decodeArgs |-> creds.decodeArgs, restConfig |-> <<restConfig>>,
              stdout |-> <<[text |-> "Successfully connected to Kubernetes cluster %s\n",
                            arg |-> name]>>]

\* CreateExternalClusterKubeRestClient.
CreateExternalClusterKubeRestClient(k8sconfig, world) ==
    LET Continue(creds) ==
            IF creds.err # nil
            THEN Failed(creds.err, creds.calls, creds.decodeArgs, <<>>)
            ELSE ConnectClientset(k8sconfig, creds, world)
    IN  Continue(DecodeCredentials(k8sconfig))

\* The API server address the pod's environment gives, "https://10.96.0.1:443".
ServiceHost ==
    <<104, 116, 116, 112, 115, 58, 47, 47, 49, 48, 46, 57, 54, 46, 48, 46, 49,
      58, 52, 52, 51>>

\* rest.InClusterConfig(): the configuration of the pod's mounted service
\* account, or an error outside a pod.
InClusterConfig(pod) ==
    IF pod.mounted
    THEN [config |-> <<[Host |-> ServiceHost, TLSClientConfig |-> ZeroTLSClientConfig]>>,
          err |-> nil]
    ELSE [config |-> <<>>, err |-> LibError("client-go: not running in a cluster")]

\* CreateInClusterKubeRestClient.
CreateInClusterKubeRestClient(pod) ==
    LET Fail(e, calls) == [clientset |-> <<>>, err |-> e, calls |-> calls, stdout |-> <<>>]
        loaded == InClusterConfig(pod)
        made == NewForConfig(loaded.config[1], pod)
        live == ServerVersion(made.clientset, pod)
    IN  IF loaded.err # nil
        THEN Fail(Errorf("failed to create in-cluster config: %w", "", loaded.err),
                  <<"InClusterConfig">>)
        ELSE IF made.err # nil
        THEN Fail(Errorf("failed to create Kubernetes clientset: %w", "", made.err),
                  <<"InClusterConfig", "NewForConfig">>)
        ELSE IF live # nil
        THEN Fail(Errorf("failed to connect to Kubernetes cluster: %w", "", live),
                  <<"InClusterConfig", "NewForConfig", "ServerVersion">>)
        ELSE [clientset |-> made.clientset, err |-> nil,
              calls |-> <<"InClusterConfig", "NewForConfig", "ServerVersion", "Printf">>,
              stdout |-> <<[text |-> "Successfully connected to Kubernetes cluster",
                            arg |-> ""]>>]

(***************************************************************************)
(* The inputs the model runs on.                                           *)
(***************************************************************************)

\* Longest text handed to decodeBase64 on its own.
MaxLen == 5

\* Most resources a list call returns.
MaxItems == 1

\* All sequences over S of length at most n.
SeqsUpTo(S, n) == UNION {[1..k -> S] : k \in 0..n}

\* Bytes of the texts handed to decodeBase64 on its own: the alphabet bytes
\* 'Z' 'g' 'm' '8', the padding '=', the newline and the foreign byte '!'.
InputBytes == {90, 103, 109, 56, 61, 10, 33}

\* "https://10.0.0.5:6443"
ExampleHost ==
    <<104, 116, 116, 112, 115, 58, 47, 47, 49, 48, 46, 48, 46, 48, 46, 53, 58,
      54, 52, 52, 51>>

\* "Zm9v", "YmFy", "YmF6": the base64 texts of "foo", "bar", "baz".
Zm9v == <<90, 109, 57, 118>>
YmFy == <<89, 109, 70, 121>>
YmF6 == <<89, 109, 70, 54>>

\* "foo", "bar", "baz".
Foo == <<102, 111, 111>>
Bar == <<98, 97, 114>>
Baz == <<98, 97, 122>>

\* Texts a credential field of K8S_CONFIG holds: "", the three examples and
\* the truncated text "Zm9", which is no base64.
SampleData == {<<>>, Zm9v, YmFy, YmF6, <<90, 109, 57>>}

\* JSON values.
JNull == [t |-> "null"]
JNumber == [t |-> "number"]
JString(str) == [t |-> "string", v |-> str]
JBool(b) == [t |-> "bool", v |-> b]
JObject(m) == [t |-> "object", m |-> m]

\* The function with no argument; Bind(key, opt) binds key when opt holds a
\* value (a sequence of length one) and nothing when opt is <<>>.
NoMember == [k \in {} |-> k]
Bind(key, opt) == IF opt = <<>> THEN NoMember ELSE key :> opt[1]

\* The values of K8S_CONFIG.tlsClientConfig: null, a number, and the objects
\* whose four members are absent, of the wrong type or of the right type.
CredMembers == {<<>>, <<JNumber>>} \cup {<<JString(d)>> : d \in SampleData}
TLSValues ==
    {JNull, JNumber} \cup
    {JObject(Bind("insecure", i) @@ Bind("certData", c)
             @@ Bind("keyData", k) @@ Bind("caData", a)) :
        i \in {<<>>, <<JBool(TRUE)>>, <<JBool(FALSE)>>},
        c \in CredMembers, k \in CredMembers, a \in CredMembers}

\* The values of K8S_CONFIG when set: "", a text that is no JSON, and JSON
\* texts: null, a number, and objects with or without tlsClientConfig.
ConfigTexts ==
    {<<>>, <<[t |-> "syntax error"]>>, <<JNull>>, <<JNumber>>, <<JObject(NoMember)>>,
     <<JObject("kind" :> JNumber)>>}
    \cup {<<JObject("tlsClientConfig" :> v)>> : v \in TLSValues}

\* The environments: each variable unset, or set to one of its values.
Environments ==
    {Bind("K8S_HOST", h) @@ Bind("K8S_CONFIG", c) :
        h \in {<<>>, <<<<>>>>, <<ExampleHost>>},
        c \in {<<>>} \cup {<<x>> : x \in ConfigTexts}}

\* The pods the program may run in, and outside any pod.
Pods == [mounted : BOOLEAN, accepts : BOOLEAN, reachable : BOOLEAN]

\* The external cluster: whether client-go accepts the decoded material and
\* whether the API server answers.
Clusters == [accepts : BOOLEAN, reachable : BOOLEAN]

\* The outcomes of a List call: an error, or up to MaxItems resource names.
ListResults ==
    {[err |-> LibError("client-go: list failed"), items |-> <<>>]}
    \cup {[err |-> nil, items |-> n] : n \in SeqsUpTo({"web", "db"}, MaxItems)}

(***************************************************************************)
(* State.                                                                  *)
(***************************************************************************)

VARIABLES
    pc,            \* where main is: the next statement, "exit" or "panic"
    environ,       \* the process environment
    viper,         \* the package-level viper instance
    pod,           \* the pod the process runs in
    cluster,       \* the external cluster behind K8S_HOST
    inClusterCall, \* what CreateInClusterKubeRestClient did and returned
    configCall,    \* what GetK8sConfigs returned
    externalCall,  \* what CreateExternalClusterKubeRestClient did and returned
    output,        \* the lines printed so far
    panicValue,    \* the error main panicked with
    encodedData,   \* the argument of a decodeBase64 call made on its own
    decodeCall     \* what that call returned

vars == <<pc, environ, viper, pod, cluster, inClusterCall, configCall, externalCall,
          output, panicValue, encodedData, decodeCall>>

\* A call not made yet is <<>>, a call made is the one-element sequence of
\* its result.
Init ==
    /\ pc = "inCluster"
    /\ environ \in Environments
    /\ viper = [automaticEnvApplied |-> FALSE]
    /\ pod \in Pods
    /\ cluster \in Clusters
    /\ inClusterCall = <<>>
    /\ configCall = <<>>
    /\ externalCall = <<>>
    /\ output = <<>>
    /\ panicValue = nil
    /\ encodedData = <<>>
    /\ decodeCall = <<>>

(***************************************************************************)
(* main.go.                                                                *)
(***************************************************************************)

\* inClusterClientSet, err := CreateInClusterKubeRestClient(); panic on error.
CallCreateInClusterKubeRestClient ==
    /\ pc = "inCluster"
    /\ \E r \in {CreateInClusterKubeRestClient(pod)} :
        /\ inClusterCall' = <<r>>
        /\ output' = output \o r.stdout
        /\ pc' = IF r.err # nil THEN "panic" ELSE "listPods"
        /\ panicValue' = r.err
    /\ UNCHANGED <<environ, viper, pod, cluster, configCall, externalCall,
                   encodedData, decodeCall>>

\* The lines println writes for the items of a list.
Println(text, items) == [i \in 1..Len(items) |-> [text |-> text, arg |-> items[i]]]

\* Pods("default").List; panic on error; one line for each pod.
ListPods ==
    /\ pc = "listPods"
    /\ \E pods \in ListResults :
        /\ pc' = IF pods.err # nil THEN "panic" ELSE "getConfigs"
        /\ panicValue' = pods.err
        /\ output' = output \o Println("In-Cluster Pod Name:", pods.items)
    /\ UNCHANGED <<environ, viper, pod, cluster, inClusterCall, configCall,
                   externalCall, encodedData, decodeCall>>

\* k8sConfig, err := GetK8sConfigs(); panic on error.
CallGetK8sConfigs ==
    /\ pc = "getConfigs"
    /\ \E r \in {GetK8sConfigs(environ, viper)} :
        /\ configCall' = <<[ret |-> r.ret, err |-> r.err]>>
        /\ viper' = r.viper
        /\ pc' = IF r.err # nil THEN "panic" ELSE "external"
        /\ panicValue' = r.err
    /\ UNCHANGED <<environ, pod, cluster, inClusterCall, externalCall, output,
                   encodedData, decodeCall>>

\* externalClusterClientSet, err := CreateExternalClusterKubeRestClient(k8sConfig);
\* panic on error.
CallCreateExternalClusterKubeRestClient ==
    /\ pc = "external"
    /\ \E r \in {CreateExternalClusterKubeRestClient(configCall[1].ret, cluster)} :
        /\ externalCall' = <<r>>
        /\ output' = output \o r.stdout
        /\ pc' = IF r.err # nil THEN "panic" ELSE "listServiceAccounts"
        /\ panicValue' = r.err
    /\ UNCHANGED <<environ, viper, pod, cluster, inClusterCall, configCall,
                   encodedData, decodeCall>>

\* ServiceAccounts("default").List; panic on error; one line for each account.
ListServiceAccounts ==
    /\ pc = "listServiceAccounts"
    /\ \E serviceAccounts \in ListResults :
        /\ pc' = IF serviceAccounts.err # nil THEN "panic" ELSE "exit"
        /\ panicValue' = serviceAccounts.err
        /\ output' = output \o Println("External Cluster Service Account Name:",
                                       serviceAccounts.items)
    /\ UNCHANGED <<environ, viper, pod, cluster, inClusterCall, configCall,
                   externalCall, encodedData, decodeCall>>

Next ==
    \/ CallCreateInClusterKubeRestClient
    \/ ListPods
    \/ CallGetK8sConfigs
    \/ CallCreateExternalClusterKubeRestClient
    \/ ListServiceAccounts

Spec == Init /\ [][Next]_vars

(***************************************************************************)
(* decodeBase64 called on its own with every text of at most MaxLen bytes. *)
(***************************************************************************)

InitDecode ==
    /\ pc = "decodeBase64"
    /\ environ = NoMember
    /\ viper = [automaticEnvApplied |-> FALSE]
    /\ pod = [mounted |-> FALSE, accepts |-> FALSE, reachable |-> FALSE]
    /\ cluster = [accepts |-> FALSE, reachable |-> FALSE]
    /\ inClusterCall = <<>>
    /\ configCall = <<>>
    /\ externalCall = <<>>
    /\ output = <<>>
    /\ panicValue = nil
    /\ encodedData \in SeqsUpTo(InputBytes, MaxLen)
    /\ decodeCall = <<>>

CallDecodeBase64 ==
    /\ pc = "decodeBase64"
    /\ decodeCall' = <<decodeBase64(encodedData)>>
    /\ pc' = "returned"
    /\ UNCHANGED <<environ, viper, pod, cluster, inClusterCall, configCall,
                   externalCall, output, panicValue, encodedData>>

NextDecode == CallDecodeBase64

SpecDecode == InitDecode /\ [][NextDecode]_vars

(***************************************************************************)
(* The kinds of error, by the message of the outermost layer.              *)
(***************************************************************************)

HasMsg(e, msgs) == e # nil /\ e[1].msg \in msgs

MissingConfigError(e) == HasMsg(e, {"K8S_CONFIG environment variable is not set"})
ConfigParseError(e) == HasMsg(e, {"failed to unmarshal: %w"})
MissingHostError(e) == HasMsg(e, {"K8S_HOST environment variable is not set"})
ConnectionError(e) == HasMsg(e, {"failed to connect to Kubernetes cluster %s: %w"})

\* The messages for an empty and for an undecodable field, in the order
\* certificate, key, CA.
EmptyFieldMsg ==
    <<"no certificate data provided for cluster %s",
      "no key data provided for cluster %s",
      "no ca certificate data provided for cluster %s">>
BadFieldMsg ==
    <<"failed to decode certificate data for cluster %s: %w",
      "failed to decode key data for cluster %s: %w",
      "failed to decode CA data for cluster %s: %w">>
MissingCredentialError(e) == HasMsg(e, {EmptyFieldMsg[i] : i \in 1..3})

(***************************************************************************)
(* What the claims read off a state.                                       *)
(***************************************************************************)

\* The value os.Getenv gives for the two variables.
HostText == Getenv(environ, "K8S_HOST")
ConfigText == Getenv(environ, "K8S_CONFIG")

\* K8S_CONFIG holds a JSON text, and the value it denotes.
ConfigIsJSON == ConfigText # <<>> /\ ConfigText[1].t # "syntax error"
ConfigDoc == ConfigText[1]

\* The tlsClientConfig object of the document, where it has one.
HasTLSObject ==
    /\ ConfigIsJSON
    /\ ConfigDoc.t = "object"
    /\ "tlsClientConfig" \in DOMAIN ConfigDoc.m
    /\ ConfigDoc.m["tlsClientConfig"].t = "object"
TLSObject == ConfigDoc.m["tlsClientConfig"].m

\* A member of a JSON object has the JSON type a Go field accepts.
FitsField(m, key, want) == key \in DOMAIN m => m[key].t \in {want, "null"}

\* The document fits the KubeConfig structure: every member the structure
\* names is absent, null or of the field's type.
ConfigFits ==
    /\ ConfigIsJSON
    /\ ConfigDoc.t \in {"null", "object"}
    /\ (ConfigDoc.t = "object" /\ "tlsClientConfig" \in DOMAIN ConfigDoc.m) =>
          /\ ConfigDoc.m["tlsClientConfig"].t \in {"null", "object"}
          /\ HasTLSObject =>
                /\ FitsField(TLSObject, "insecure", "bool")
                /\ FitsField(TLSObject, "certData", "string")
                /\ FitsField(TLSObject, "keyData", "string")
                /\ FitsField(TLSObject, "caData", "string")

\* The text of a credential member of the document, "" where it has none,
\* and its insecure flag, false where it has none.
JSONText(key) ==
    IF HasTLSObject /\ key \in DOMAIN TLSObject /\ TLSObject[key].t = "string"
    THEN TLSObject[key].v ELSE <<>>
JSONInsecure ==
    IF HasTLSObject /\ "insecure" \in DOMAIN TLSObject /\ TLSObject["insecure"].t = "bool"
    THEN TLSObject["insecure"].v ELSE FALSE

\* The calls made and their results.
Loaded == configCall # <<>>
LoadErr == configCall[1].err
LoadRet == configCall[1].ret
Built == externalCall # <<>>
Ext == externalCall[1]

\* The three credential texts of the configuration given to the factory.
Fields == <<LoadRet.Config.CertData, LoadRet.Config.KeyData, LoadRet.Config.CAData>>

\* A text is standard base64 as RFC 4648 writes it: groups of four alphabet
\* bytes, the last group ending in at most two '='.
IsAlphabet(c) == decodeMap(c) # 255
WellFormed(str) ==
    /\ Len(str) % 4 = 0
    /\ \A i \in 1..Len(str) :
          \/ IsAlphabet(str[i])
          \/ /\ IsPad(str[i])
             /\ i > Len(str) - 2
             /\ i > 2
             /\ \A k \in i..Len(str) : IsPad(str[k])

\* A text without its '\r' and '\n' bytes.
RECURSIVE StripNewlines(_)
StripNewlines(str) ==
    IF str = <<>> THEN <<>>
    ELSE IF IsNewline(str[1]) THEN StripNewlines(Tail(str))
    ELSE <<str[1]>> \o StripNewlines(Tail(str))

\* The bits a padded last group leaves unused are zero.
ZeroPadBits(str) ==
    LET n == Len(str) IN
    /\ (n >= 4 /\ IsPad(str[n]) /\ IsPad(str[n - 1])) => decodeMap(str[n - 2]) % 16 = 0
    /\ (n >= 4 /\ IsPad(str[n]) /\ ~IsPad(str[n - 1])) => decodeMap(str[n - 1]) % 4 = 0

\* A text is the canonical encoding of some bytes.
Canonical(str) == (\A i \in 1..Len(str) : ~IsNewline(str[i])) /\ ZeroPadBits(str)

\* A text decodeBase64 decodes without error.
Decodable(str) == decodeBase64(str).err = nil

\* The first of the three fields that is empty or undecodable, 0 if none.
FirstBadField ==
    IF \E i \in 1..3 : Fields[i] = <<>> \/ ~Decodable(Fields[i])
    THEN CHOOSE i \in 1..3 :
            /\ Fields[i] = <<>> \/ ~Decodable(Fields[i])
            /\ \A k \in 1..(i - 1) : Fields[k] # <<>> /\ Decodable(Fields[k])
    ELSE 0

\* The number of times a function occurs in a list of calls.
Count(calls, fn) == Cardinality({i \in 1..Len(calls) : calls[i] = fn})

\* The line the external factory prints on success.
SuccessLine(name) ==
    [text |-> "Successfully connected to Kubernetes cluster %s\n", arg |-> name]

(***************************************************************************)
(* C1                                                                      *)
(***************************************************************************)

\* C1 as stated: whenever K8S_HOST is unset, GetK8sConfigs fails with
\* MissingHostError, whatever K8S_CONFIG holds.
C1_MissingHostWhateverConfig ==
    (Loaded /\ "K8S_HOST" \notin DOMAIN environ) => MissingHostError(LoadErr)

\* C1 amended: whenever K8S_HOST is unset, GetK8sConfigs fails and returns
\* the zero configuration; K8S_CONFIG is examined first, so the error is
\* MissingConfigError when K8S_CONFIG is unset or empty, ConfigParseError
\* when its text is no JSON or does not fit the structure, and
\* MissingHostError only when K8S_CONFIG unmarshals.
C1_HostUnsetFailsAfterConfig ==
    (Loaded /\ "K8S_HOST" \notin DOMAIN environ) =>
        /\ LoadErr # nil
        /\ LoadRet = ZeroK8sConfig
        /\ ConfigText = <<>> => MissingConfigError(LoadErr)
        /\ (ConfigText # <<>> /\ ~ConfigFits) => ConfigParseError(LoadErr)
        /\ ConfigFits => MissingHostError(LoadErr)

\* K8S_HOST is unset, K8S_CONFIG unmarshals, and the load failed for the host.
C1_Witness ==
    /\ Loaded
    /\ "K8S_HOST" \notin DOMAIN environ
    /\ ConfigFits
    /\ MissingHostError(LoadErr)

(***************************************************************************)
(* C2                                                                      *)
(***************************************************************************)

\* C2 as stated: with at least one of the three fields empty, the factory
\* fails with MissingCredentialError naming an empty field and the cluster,
\* whatever the other two hold; certData present with keyData empty gives
\* the error for the key; decodeBase64 is never given an empty field.
C2_EmptyFieldAlwaysMissingCredential ==
    (Built /\ \E i \in 1..3 : Fields[i] = <<>>) =>
        /\ MissingCredentialError(Ext.err)
        /\ \E i \in 1..3 : Fields[i] = <<>> /\ Ext.err[1].msg = EmptyFieldMsg[i]
        /\ Ext.err[1].cluster = LoadRet.Name
        /\ (Fields[1] # <<>> /\ Fields[2] = <<>>) => Ext.err[1].msg = EmptyFieldMsg[2]
        /\ \A k \in 1..Len(Ext.decodeArgs) : Ext.decodeArgs[k] # <<>>

\* C2 amended: with at least one of the three fields empty, the factory
\* fails, returns no clientset and never reaches client construction; the
\* fields are taken in the order certificate, key, CA, and the error names
\* the cluster and the first field that is empty or undecodable:
\* MissingCredentialError if that field is empty, the decode error if a
\* malformed field comes before the first empty one; decodeBase64 is never
\* given an empty field.
C2_FirstBadFieldDecides ==
    (Built /\ \E i \in 1..3 : Fields[i] = <<>>) =>
        /\ Ext.err # nil
        /\ Ext.clientset = <<>>
        /\ Count(Ext.calls, "NewForConfig") = 0
        /\ Ext.err[1].cluster = LoadRet.Name
        /\ Fields[FirstBadField] = <<>> => Ext.err[1].msg = EmptyFieldMsg[FirstBadField]
        /\ Fields[FirstBadField] # <<>> => Ext.err[1].msg = BadFieldMsg[FirstBadField]
        /\ \A k \in 1..Len(Ext.decodeArgs) : Ext.decodeArgs[k] # <<>>

\* certData is present and decodes, keyData is empty, and the factory failed
\* with the error for the key after one decodeBase64 call.
C2_Witness ==
    /\ Built
    /\ Fields[1] # <<>>
    /\ Decodable(Fields[1])
    /\ Fields[2] = <<>>
    /\ Ext.err # nil
    /\ Ext.err[1].msg = EmptyFieldMsg[2]
    /\ Ext.decodeArgs = <<Fields[1]>>

(***************************************************************************)
(* C3                                                                      *)
(***************************************************************************)

\* decodeBase64 was called on its own and returned.
Returned == decodeCall # <<>>
Ret == decodeCall[1]

\* C3 as stated: for every non-empty text decodeBase64 accepts, encoding the
\* returned bytes again gives the text.
C3_RoundTripOfAccepted ==
    (Returned /\ encodedData # <<>> /\ Ret.err = nil) =>
        EncodeToString(Ret.data) = encodedData

\* C3 amended: for every non-empty text decodeBase64 accepts, encoding the
\* returned bytes again gives the text exactly when the text holds no '\r'
\* or '\n' and the unused bits of a padded last group are zero; the decoder
\* skips the former and drops the latter.
C3_RoundTripOfCanonical ==
    (Returned /\ encodedData # <<>> /\ Ret.err = nil) =>
        (EncodeToString(Ret.data) = encodedData <=> Canonical(encodedData))

\* "Zg==" was accepted and encodes back to itself.
C3_Witness ==
    /\ Returned
    /\ encodedData = <<90, 103, 61, 61>>
    /\ Ret.err = nil
    /\ Ret.data = <<102>>
    /\ EncodeToString(Ret.data) = encodedData

(***************************************************************************)
(* C4                                                                      *)
(***************************************************************************)

\* C4 as stated: the empty text gives an empty result and no error; every
\* non-empty text that is not well-formed standard base64 gives an error
\* and no bytes.
C4_MalformedAlwaysRejected ==
    Returned =>
        /\ encodedData = <<>> => (Ret.data = <<>> /\ Ret.err = nil)
        /\ (encodedData # <<>> /\ ~WellFormed(encodedData)) =>
              (Ret.err # nil /\ Ret.data = <<>>)

\* C4 amended: the empty text gives an empty result and no error; a
\* non-empty text gives an error exactly when, with its '\r' and '\n' bytes
\* removed, it is not well-formed standard base64 (a text of newlines alone
\* is accepted and gives no bytes); every error comes with no bytes, never
\* with the bytes decoded before it.
C4_RejectsUpToNewlines ==
    Returned =>
        /\ encodedData = <<>> => (Ret.data = <<>> /\ Ret.err = nil)
        /\ encodedData # <<>> =>
              (Ret.err # nil <=> ~WellFormed(StripNewlines(encodedData)))
        /\ Ret.err # nil => Ret.data = <<>>

\* "ZmZm!" was rejected with no bytes, although its first group decodes.
C4_Witness ==
    /\ Returned
    /\ encodedData = <<90, 109, 90, 109, 33>>
    /\ DecodeString(encodedData).data # <<>>
    /\ Ret.err # nil
    /\ Ret.data = <<>>

(***************************************************************************)
(* C5                                                                      *)
(***************************************************************************)

\* C5 as stated: when the three fields of K8S_CONFIG are well-formed base64
\* and K8S_HOST is not empty, the configuration GetK8sConfigs returns holds
\* the decoded bytes of the three fields and the insecure flag.
C5_LoadReturnsDecodedBytes ==
    (/\ Loaded
     /\ HostText # <<>>
     /\ ConfigFits
     /\ \A key \in {"certData", "keyData", "caData"} : Decodable(JSONText(key))) =>
        /\ LoadErr = nil
        /\ LoadRet.Config.CertData = DecodeString(JSONText("certData")).data
        /\ LoadRet.Config.KeyData = DecodeString(JSONText("keyData")).data
        /\ LoadRet.Config.CAData = DecodeString(JSONText("caData")).data
        /\ LoadRet.Config.Insecure = JSONInsecure

\* C5 amended: the configuration GetK8sConfigs returns holds the three
\* fields as K8S_CONFIG gives them, still base64 encoded (certData "Zm9v"
\* gives CertData "Zm9v"), and the insecure flag; decoding happens later,
\* once for each field, in CreateExternalClusterKubeRestClient, and the
\* rest.Config built there holds the host, the insecure flag and the decoded
\* bytes ("foo").
C5_LoadKeepsTextFactoryDecodes ==
    /\ (Loaded /\ HostText # <<>> /\ ConfigFits) =>
          /\ LoadErr = nil
          /\ LoadRet.Config.CertData = JSONText("certData")
          /\ LoadRet.Config.KeyData = JSONText("keyData")
          /\ LoadRet.Config.CAData = JSONText("caData")
          /\ LoadRet.Config.Insecure = JSONInsecure
          /\ LoadRet.Host = HostText
    /\ (Built /\ Ext.restConfig # <<>>) =>
          /\ Ext.decodeArgs = <<JSONText("certData"), JSONText("keyData"), JSONText("caData")>>
          /\ Ext.restConfig[1].Host = HostText
          /\ Ext.restConfig[1].TLSClientConfig =
                [Insecure |-> JSONInsecure,
                 CertData |-> DecodeString(JSONText("certData")).data,
                 KeyData |-> DecodeString(JSONText("keyData")).data,
                 CAData |-> DecodeString(JSONText("caData")).data]

\* The end-to-end example: the loaded configuration holds "Zm9v", "YmFy",
\* "YmF6" and the rest.Config of the factory holds "foo", "bar", "baz" and
\* insecure = true.
C5_Witness ==
    /\ Built
    /\ HostText = ExampleHost
    /\ JSONInsecure
    /\ LoadRet.Config = [Insecure |-> TRUE, CertData |-> Zm9v, KeyData |-> YmFy,
                         CAData |-> YmF6]
    /\ Ext.restConfig # <<>>
    /\ Ext.restConfig[1].TLSClientConfig =
          [Insecure |-> TRUE, CertData |-> Foo, KeyData |-> Bar, CAData |-> Baz]

(***************************************************************************)
(* C6                                                                      *)
(***************************************************************************)

\* main has ended, by returning or by a panic.
Ended == pc \in {"exit", "panic"}

\* The external method is configured: K8S_HOST is set and not empty and
\* K8S_CONFIG unmarshals.
ExternalConfigured == HostText # <<>> /\ ConfigFits

\* C6: a run attempts both methods: when main has ended and the external
\* method is configured, the in-cluster factory was called and so were
\* GetK8sConfigs and the external factory; a failure of the in-cluster
\* attempt does not prevent the external one.
C6_BothMethodsAttempted ==
    (Ended /\ ExternalConfigured) =>
        /\ inClusterCall # <<>>
        /\ Loaded
        /\ Built

(***************************************************************************)
(* C7                                                                      *)
(***************************************************************************)

\* The three fields of the configuration given to the factory are non-empty
\* and decode.
FieldsValid == \A i \in 1..3 : Fields[i] # <<>> /\ Decodable(Fields[i])

C8_AnyJSONWithoutTLSLoads ==
    (/\ Loaded
     /\ HostText # <<>>
     /\ ConfigIsJSON
     /\ ~(ConfigDoc.t = "object" /\ "tlsClientConfig" \in DOMAIN ConfigDoc.m)) =>
        /\ LoadErr = nil
        /\ LoadRet = [Name |-> "default", Config |-> ZeroTLSClientConfig, Host |-> HostText]

\* C8 amended: with K8S_HOST not empty and K8S_CONFIG a JSON object without a
\* tlsClientConfig member (or the JSON null), GetK8sConfigs succeeds and
\* returns the configuration "default" with empty certData, keyData, caData
\* and insecure = false; a JSON document that is a number, a string or an
\* array fails with ConfigParseError.
C8_ObjectWithoutTLSLoads ==
    (Loaded /\ HostText # <<>> /\ ConfigIsJSON) =>
        /\ (\/ ConfigDoc.t = "null"
            \/ ConfigDoc.t = "object" /\ "tlsClientConfig" \notin DOMAIN ConfigDoc.m) =>
              /\ LoadErr = nil
              /\ LoadRet = [Name |-> "default", Config |-> ZeroTLSClientConfig,
                            Host |-> HostText]
        /\ ConfigDoc.t \notin {"null", "object"} =>
              /\ ConfigParseError(LoadErr)
              /\ LoadRet = ZeroK8sConfig

\* K8S_CONFIG is the object {} and the load succeeded with the name "default".
C8_Witness ==
    /\ Loaded
    /\ HostText = ExampleHost
    /\ ConfigIsJSON
    /\ ConfigDoc = JObject(NoMember)
    /\ LoadErr = nil
    /\ LoadRet.Name = "default"
    /\ LoadRet.Config = ZeroTLSClientConfig

(***************************************************************************)
(* C9                                                                      *)
(***************************************************************************)

\* The step of main that calls GetK8sConfigs.
LoadStep == pc = "getConfigs" /\ pc' # "getConfigs"

\* C9 as stated: a call of GetK8sConfigs, successful or failing, changes no
\* global state: not the environment, not the output, not the package-level
\* state of viper.
C9_LoadChangesNothing ==
    [][LoadStep => (environ' = environ /\ output' = output /\ viper' = viper)]_vars

\* C9 amended: a call of GetK8sConfigs, successful or failing, leaves the
\* environment and the output unchanged, and has one side effect: it
\* switches the package-level viper instance to automatic env
\* (viper.AutomaticEnv), which it then leaves on.
C9_LoadOnlySwitchesViper ==
    [][LoadStep => (/\ environ' = environ
                    /\ output' = output
                    /\ viper' = [automaticEnvApplied |-> TRUE])]_vars

\* GetK8sConfigs was called, failed, and viper is switched to automatic env.
C9_Witness ==
    /\ Loaded
    /\ LoadErr # nil
    /\ viper.automaticEnvApplied

(***************************************************************************)
(* C10                                                                     *)
(***************************************************************************)

\* C10: in every call of the factory, (1) NewForConfig and ServerVersion are
\* called only after three decodeBase64 calls on non-empty fields that all
\* decoded; (2) a clientset is returned exactly when construction and the
\* liveness check both succeeded, and exactly one of clientset and error is
\* non-nil; (3) the success line naming the cluster is printed exactly when
\* a clientset is returned.
C10_FactoryOrderAndResult ==
    Built =>
        /\ \A i \in 1..Len(Ext.calls) :
              Ext.calls[i] \in {"NewForConfig", "ServerVersion"} =>
                  /\ FieldsValid
                  /\ i > 3
                  /\ SubSeq(Ext.calls, 1, 3) = <<"decodeBase64", "decodeBase64", "decodeBase64">>
                  /\ Ext.decodeArgs = Fields
        /\ Ext.clientset # <<>> <=> (FieldsValid /\ cluster.accepts /\ cluster.reachable)
        /\ Ext.clientset # <<>> =>
              Ext.calls = <<"decodeBase64", "decodeBase64", "decodeBase64",
                            "NewForConfig", "ServerVersion", "Printf">>
        /\ Ext.clientset = <<>> <=> Ext.err # nil
        /\ Ext.stdout = (IF Ext.clientset # <<>> THEN <<SuccessLine(LoadRet.Name)>> ELSE <<>>)
        /\ Count(Ext.calls, "Printf") = Len(Ext.stdout)

\* The factory returned a clientset and printed the line for "default".
C10_Witness ==
    /\ Built
    /\ Ext.clientset # <<>>
    /\ Ext.err = nil
    /\ Ext.stdout = <<SuccessLine("default")>>

====
